---- MODULE Spec2Model ----
(***************************************************************************)
(* Rate-monotonic scheduling simulator of src/vss-xxy.py.                  *)
(*                                                                         *)
(* The state is that of one call rate_monotonic_scheduling(tasks,          *)
(* simulation_time): the Task objects' fields, the local variables of the  *)
(* loop, and the lines the loop prints when a job is released or           *)
(* completes.  A task is named by its position in the task list, which is  *)
(* also its task_id.  Task.deadline is stored by the constructor and never *)
(* read; it is left out.                                                   *)
(***************************************************************************)
EXTENDS Integers, Sequences, FiniteSets, TLC

\* ------------------------------------------------------------------------
\* Bounds of the model
\* ------------------------------------------------------------------------
MaxWcet == 2
MaxHorizon == 6

\* the values task parameters are drawn from
TaskCounts == {0, 1, 2}
Periods == {2, 3}
Priorities == {1, 2}

\* ------------------------------------------------------------------------
\* Values
\* ------------------------------------------------------------------------
\* Python's None in completion_time and response_time
None == -1
\* the "Idle" label of a schedule_log entry (task ids are 1, 2, ...)
Idle == 0

Max(a, b) == IF a >= b THEN a ELSE b

VARIABLES
    tasks,              \* the task list: bcet, wcet, period, priority (l. 53-59)
    simulation_time,    \* the horizon (l. 103)
    execution_time,     \* Task.execution_time (l. 60)
    release_time,       \* Task.release_time (l. 61)
    remaining_time,     \* Task.remaining_time (l. 62)
    completion_time,    \* Task.completion_time (l. 63)
    response_time,      \* Task.response_time (l. 64)
    wcrt,               \* Task.wcrt (l. 65)
    current_time,       \* l. 105
    active_jobs,        \* list of task ids, repetitions included (l. 107)
    job_release_times,  \* l. 109
    schedule_log,       \* list of <<time, task id or Idle>> (l. 111)
    released,           \* the release lines printed (l. 120), without
                        \* the execution time: <<time, task>>
    completed,          \* the completion lines printed (l. 135):
                        \* <<time, task, response time>>
    pc                  \* position in the loop (l. 113-146)

vars == <<tasks, simulation_time, execution_time, release_time,
          remaining_time, completion_time, response_time, wcrt, current_time,
          active_jobs, job_release_times, schedule_log, released, completed,
          pc>>

TaskIds == 1..Len(tasks)

\* ------------------------------------------------------------------------
\* generate_execution_time
\* ------------------------------------------------------------------------
\* The truncated-normal draw lies in the real interval [bcet, wcet]; the
\* model draws it in half units, h = 2 * draw, so that rounding has work to
\* do.  Python's round() rounds a half to the even neighbour.
Draws(bcet, wcet) == (2 * bcet)..(2 * wcet)

Round(h) ==
    IF h % 2 = 0 THEN h \div 2
    ELSE IF ((h - 1) \div 2) % 2 = 0 THEN (h - 1) \div 2
         ELSE (h + 1) \div 2

generate_execution_time_noclamp(bcet, wcet, h) ==
    IF bcet = wcet THEN bcet ELSE Round(h)

generate_execution_time(bcet, wcet, h) ==
    IF bcet = wcet THEN Max(1, bcet) ELSE Max(1, Round(h))

\* ------------------------------------------------------------------------
\* Task methods
\* ------------------------------------------------------------------------
is_ready(t, time) == time >= release_time[t] /\ remaining_time[t] > 0

execute_unfloored(rem, time_units) == rem - time_units

\* the new remaining_time; the method returns whether it is 0
execute(rem, time_units) == Max(0, rem - time_units)

calculate_response_time_early(release, time) == (time - 1) - release

\* the response time of a job released at release and completed at time
calculate_response_time(release, time) == time - release

\* ------------------------------------------------------------------------
\* AdvanceTime
\* ------------------------------------------------------------------------
SetMin(S) == CHOOSE x \in S : \A y \in S : x <= y

AdvanceTime_noskip(time, releases, active) == 1

\* the skip goes to the latest of the next releases
AdvanceTime_farthest(time, releases, active) ==
    IF active # <<>> THEN 1
    ELSE LET future_release_times ==
                 {releases[t] : t \in {u \in DOMAIN releases : releases[u] > time}}
         IN  IF future_release_times # {}
             THEN (CHOOSE x \in future_release_times :
                      \A y \in future_release_times : y <= x) - time
             ELSE 1

\* the skip taken whether or not a job is active
AdvanceTime_blind(time, releases, active) ==
    LET future_release_times ==
            {releases[t] : t \in {u \in DOMAIN releases : releases[u] > time}}
    IN  IF future_release_times # {}
        THEN SetMin(future_release_times) - time
        ELSE 1

\* the skip measured from the tick after time
AdvanceTime_short(time, releases, active) ==
    IF active # <<>> THEN 1
    ELSE LET future_release_times ==
                 {releases[t] : t \in {u \in DOMAIN releases : releases[u] > time}}
         IN  IF future_release_times # {}
             THEN SetMin(future_release_times) - (time + 1)
             ELSE 1

AdvanceTime(time, releases, active) ==
    IF active # <<>> THEN 1
    ELSE LET future_release_times ==
                 {releases[t] : t \in {u \in DOMAIN releases : releases[u] > time}}
         IN  IF future_release_times # {}
             THEN SetMin(future_release_times) - time
             ELSE 1

\* ------------------------------------------------------------------------
\* sorted(active_jobs, key=priority): a stable sort
\* ------------------------------------------------------------------------
\* an insertion that goes in front of the entries of equal priority
RECURSIVE InsertByPriority_front(_, _, _)
InsertByPriority_front(x, s, prio) ==
    IF s = <<>> THEN <<x>>
    ELSE IF prio[Head(s)] < prio[x]
         THEN <<Head(s)>> \o InsertByPriority_front(x, Tail(s), prio)
         ELSE <<x>> \o s

RECURSIVE InsertByPriority(_, _, _)
InsertByPriority(x, s, prio) ==
    IF s = <<>> THEN <<x>>
    ELSE IF prio[Head(s)] <= prio[x]
         THEN <<Head(s)>> \o InsertByPriority(x, Tail(s), prio)
         ELSE <<x>> \o s

RECURSIVE SortFrom(_, _, _)
SortFrom(s, acc, prio) ==
    IF s = <<>> THEN acc
    ELSE SortFrom(Tail(s), InsertByPriority(Head(s), acc, prio), prio)

SortByPriority_unsorted(s, prio) == s

SortByPriority(s, prio) == SortFrom(s, <<>>, prio)

\* list.remove(x): drops the first occurrence
RECURSIVE Remove(_, _)
Remove(s, x) ==
    IF s = <<>> THEN <<>>
    ELSE IF Head(s) = x THEN Tail(s)
         ELSE <<Head(s)>> \o Remove(Tail(s), x)

LogEntry_next(time, label) == <<time + 1, label>>

LogEntry(time, label) == <<time, label>>

\* ------------------------------------------------------------------------
\* Initial state: the tasks as constructed and the loop's locals
\* ------------------------------------------------------------------------
TaskParams ==
    {p \in [bcet : 0..MaxWcet, wcet : 0..MaxWcet, period : Periods,
            priority : Priorities] : p.bcet <= p.wcet}

TaskLists == UNION {[1..n -> TaskParams] : n \in TaskCounts}

\* one draw for each task of D, a draw of 0 standing for no draw
DrawChoices(D) ==
    LET top == IF D = {} THEN 0
               ELSE 2 * (CHOOSE w \in {tasks[t].wcet : t \in D} :
                            \A t \in D : tasks[t].wcet <= w)
    IN  {h \in [TaskIds -> 0..top] :
            \A t \in TaskIds :
                h[t] \in IF t \in D THEN Draws(tasks[t].bcet, tasks[t].wcet)
                         ELSE {0}}

\* Task.__init__ for every task of the list, then the locals of
\* rate_monotonic_scheduling before its loop
InitWith(lists, horizons) ==
    /\ tasks \in lists
    /\ simulation_time \in horizons
    /\ \E h \in DrawChoices(TaskIds) :
          execution_time =
              [t \in TaskIds |->
                  generate_execution_time(tasks[t].bcet, tasks[t].wcet, h[t])]
    /\ release_time = [t \in TaskIds |-> 0]
    /\ remaining_time = execution_time
    /\ completion_time = [t \in TaskIds |-> None]
    /\ response_time = [t \in TaskIds |-> None]
    /\ wcrt = [t \in TaskIds |-> 0]
    /\ current_time = 0
    /\ active_jobs = <<>>
    /\ job_release_times = [t \in TaskIds |-> 0]
    /\ schedule_log = <<>>
    /\ released = <<>>
    /\ completed = <<>>
    /\ pc = "loop"

Init == InitWith(TaskLists, 1..MaxHorizon)

\* ------------------------------------------------------------------------
\* The loop
\* ------------------------------------------------------------------------
Due(t) == current_time = job_release_times[t]

\* the task ids in list order
RECURSIVE IdsFrom(_, _)
IdsFrom(i, n) == IF i > n THEN <<>> ELSE <<i>> \o IdsFrom(i + 1, n)

\* step 1: every due task releases a new job and joins active_jobs
ReleaseStep ==
    /\ pc = "loop"
    /\ current_time < simulation_time
    /\ \E h \in DrawChoices({t \in TaskIds : Due(t)}) :
          execution_time' =
              [t \in TaskIds |->
                  IF Due(t)
                  THEN generate_execution_time(tasks[t].bcet, tasks[t].wcet, h[t])
                  ELSE execution_time[t]]
    /\ release_time' =
           [t \in TaskIds |-> IF Due(t) THEN current_time ELSE release_time[t]]
    /\ remaining_time' =
           [t \in TaskIds |->
               IF Due(t) THEN execution_time'[t] ELSE remaining_time[t]]
    /\ completion_time' =
           [t \in TaskIds |-> IF Due(t) THEN None ELSE completion_time[t]]
    /\ response_time' =
           [t \in TaskIds |-> IF Due(t) THEN None ELSE response_time[t]]
    /\ active_jobs' =
           active_jobs \o SelectSeq(IdsFrom(1, Len(tasks)), Due)
    /\ job_release_times' =
           [t \in TaskIds |->
               IF Due(t) THEN job_release_times[t] + tasks[t].period
               ELSE job_release_times[t]]
    /\ released' =
           released \o [i \in 1..Len(SelectSeq(IdsFrom(1, Len(tasks)), Due)) |->
                           <<current_time,
                             SelectSeq(IdsFrom(1, Len(tasks)), Due)[i]>>]
    /\ pc' = "dispatch"
    /\ UNCHANGED <<tasks, simulation_time, wcrt, current_time, schedule_log,
                   completed>>

Priority == [t \in TaskIds |-> tasks[t].priority]

\* steps 2 and 3: the head of the sorted list runs one unit; if that
\* finishes it, its response time is recorded and it leaves the list
DispatchRun ==
    /\ pc = "dispatch"
    /\ active_jobs # <<>>
    /\ LET sorted == SortByPriority(active_jobs, Priority)
           current_job == sorted[1]
           rem == execute(remaining_time[current_job], 1)
           finished == rem = 0
           rt == calculate_response_time(release_time[current_job],
                                         current_time + 1)
       IN  /\ remaining_time' = [remaining_time EXCEPT ![current_job] = rem]
           /\ schedule_log' =
                  Append(schedule_log, LogEntry(current_time, current_job))
           /\ IF finished
              THEN /\ completion_time' =
                          [completion_time EXCEPT ![current_job] = current_time + 1]
                   /\ response_time' = [response_time EXCEPT ![current_job] = rt]
                   /\ wcrt' = [wcrt EXCEPT ![current_job] = Max(@, rt)]
                   /\ active_jobs' = Remove(sorted, current_job)
                   /\ completed' =
                          Append(completed, <<current_time + 1, current_job, rt>>)
              ELSE /\ active_jobs' = sorted
                   /\ UNCHANGED <<completion_time, response_time, wcrt, completed>>
    /\ pc' = "advance"
    /\ UNCHANGED <<tasks, simulation_time, execution_time, release_time,
                   current_time, job_release_times, released>>

\* step 2 with nothing to run
DispatchIdle ==
    /\ pc = "dispatch"
    /\ active_jobs = <<>>
    /\ schedule_log' = Append(schedule_log, LogEntry(current_time, Idle))
    /\ pc' = "advance"
    /\ UNCHANGED <<tasks, simulation_time, execution_time, release_time,
                   remaining_time, completion_time, response_time, wcrt,
                   current_time, active_jobs, job_release_times, released,
                   completed>>

\* step 4
AdvanceStep ==
    /\ pc = "advance"
    /\ current_time' =
           current_time + AdvanceTime(current_time, job_release_times, active_jobs)
    /\ pc' = "loop"
    /\ UNCHANGED <<tasks, simulation_time, execution_time, release_time,
                   remaining_time, completion_time, response_time, wcrt,
                   active_jobs, job_release_times, schedule_log, released,
                   completed>>

\* the loop condition fails: the function returns schedule_log
LoopExit ==
    /\ pc = "loop"
    /\ current_time >= simulation_time
    /\ pc' = "done"
    /\ UNCHANGED <<tasks, simulation_time, execution_time, release_time,
                   remaining_time, completion_time, response_time, wcrt,
                   current_time, active_jobs, job_release_times, schedule_log,
                   released, completed>>

Next ==
    \/ ReleaseStep
    \/ DispatchRun
    \/ DispatchIdle
    \/ AdvanceStep
    \/ LoopExit

Spec == Init /\ [][Next]_vars

\* ------------------------------------------------------------------------
\* The scenarios of the specification's section 8
\* ------------------------------------------------------------------------
TaskA == [bcet |-> 1, wcet |-> 1, period |-> 4, priority |-> 1]
TaskB == [bcet |-> 2, wcet |-> 2, period |-> 6, priority |-> 2]
TaskSingle == [bcet |-> 1, wcet |-> 1, period |-> 10, priority |-> 1]

ScenarioTasks == {TaskA, TaskB, TaskSingle}
ScenarioLists == UNION {[1..n -> ScenarioTasks] : n \in TaskCounts}
ScenarioHorizons == {10, 12}

ScenarioInit == InitWith(ScenarioLists, ScenarioHorizons)

ScenarioSpec == ScenarioInit /\ [][Next]_vars

\* ------------------------------------------------------------------------
\* Reading the run
\* ------------------------------------------------------------------------
SetMax(S) == CHOOSE x \in S : \A y \in S : y <= x

Last(s) == s[Len(s)]

\* the completion lines of task t
LinesOf(t) == {i \in DOMAIN completed : completed[i][2] = t}

\* the release time of the job a completion line is about
ReleaseOf(i) == completed[i][1] - completed[i][3]

\* A job is one release of a task, and the releases of a task have distinct
\* release times.  remaining_time of a released job is at least 1 and only
\* execute lowers it, so the first completion line of a job is printed at
\* the first tick boundary where its remaining_time reaches 0.
JobsCompleted(t) == {ReleaseOf(i) : i \in LinesOf(t)}

FirstCompletion(t, r) ==
    SetMin({completed[i][1] : i \in {j \in LinesOf(t) : ReleaseOf(j) = r}})

MaxResponse(t) ==
    IF JobsCompleted(t) = {} THEN 0
    ELSE SetMax({FirstCompletion(t, r) - r : r \in JobsCompleted(t)})

\* some job has two completion lines: execute ran on a task whose
\* remaining_time was already 0
CompletedTwice(t) ==
    \E i, j \in LinesOf(t) : i < j /\ ReleaseOf(i) = ReleaseOf(j)

\* ------------------------------------------------------------------------
\* Claims
\* ------------------------------------------------------------------------

\* C1: when rate_monotonic_scheduling has returned, every task's wcrt is the
\* largest completion_time - release_time over its jobs that completed,
\* completion being the first tick boundary where remaining_time reaches 0,
\* and 0 if none completed.
C1_WcrtIsMaxResponse ==
    pc = "done" => \A t \in TaskIds : wcrt[t] = MaxResponse(t)

\* C2: whenever a task is logged as running at tick t, no task that is ready
\* at t (released, remaining_time > 0) has a numerically smaller priority.
C2_HighestPriorityRuns ==
    [][(/\ pc = "dispatch"
        /\ Len(schedule_log') = Len(schedule_log) + 1
        /\ Last(schedule_log')[2] # Idle)
       => \A u \in TaskIds :
              is_ready(u, current_time)
                  => tasks[u].priority >= tasks[Last(schedule_log')[2]].priority]_vars

\* a task later in the list ran while the first task, of lower priority,
\* was ready
C2_Witness ==
    /\ pc = "advance"
    /\ Len(tasks) = 2
    /\ Last(schedule_log) = <<current_time, 2>>
    /\ tasks[2].priority < tasks[1].priority
    /\ remaining_time[1] > 0
    /\ current_time > 0

\* C3: calculate_response_time runs once per job: once completion_time is
\* set, completion_time and response_time are not written again before the
\* task's next release_new_job, and no job has two completion lines.
C3_CompletionWrittenOnce ==
    [][\A t \in TaskIds :
          /\ (completion_time[t] # None /\ release_time'[t] = release_time[t])
                 => /\ completion_time'[t] = completion_time[t]
                    /\ response_time'[t] = response_time[t]
          /\ ~CompletedTwice(t)']_vars

\* C4: every iteration of the loop appends exactly one entry, whose time is
\* current_time, and the times of the log are strictly increasing.
C4_OneEntryPerIteration ==
    /\ \A i \in 1..(Len(schedule_log) - 1) :
           schedule_log[i][1] < schedule_log[i + 1][1]
    /\ pc = "advance"
           => schedule_log # <<>> /\ Last(schedule_log)[1] = current_time
    /\ pc # "advance"
           => schedule_log = <<>> \/ Last(schedule_log)[1] < current_time

\* the log after an idle skip: two consecutive entries more than a tick apart
C4_Witness ==
    /\ pc = "advance"
    /\ Len(schedule_log) >= 3
    /\ \E i \in 1..(Len(schedule_log) - 1) :
           schedule_log[i + 1][1] > schedule_log[i][1] + 1

\* C5 as claimed: every execution_time lies in max(1, bcet) .. wcet.
C5_ExecutionTimeInEnvelope ==
    \A t \in TaskIds :
        /\ Max(1, tasks[t].bcet) <= execution_time[t]
        /\ execution_time[t] <= tasks[t].wcet

\* C5 as amended: every execution_time, at construction and after every
\* release_new_job, lies in max(1, bcet) .. max(1, wcet).
C5_ExecutionTimeClamped ==
    \A t \in TaskIds :
        /\ Max(1, tasks[t].bcet) <= execution_time[t]
        /\ execution_time[t] <= Max(1, tasks[t].wcet)

\* after a later release: one task drew its wcet from a proper interval,
\* another has wcet = 0
C5_Witness ==
    \E t, u \in TaskIds :
        /\ release_time[t] > 0
        /\ tasks[t].bcet < tasks[t].wcet
        /\ execution_time[t] = tasks[t].wcet
        /\ release_time[u] > 0
        /\ tasks[u].wcet = 0
        /\ execution_time[u] = 1

\* C6: a response_time that is set is completion_time - release_time and at
\* least 1, and so is every response time printed.
C6_ResponseTimeAtLeastOne ==
    /\ \A t \in TaskIds :
           response_time[t] # None
               => /\ completion_time[t] # None
                  /\ response_time[t] = completion_time[t] - release_time[t]
                  /\ response_time[t] >= 1
    /\ \A i \in DOMAIN completed : completed[i][3] >= 1

\* a job released after time 0 has completed in the tick of its release
C6_Witness ==
    \E t \in TaskIds :
        /\ release_time[t] > 0
        /\ response_time[t] = 1
        /\ completion_time[t] = release_time[t] + 1

\* C7: in every state 0 <= remaining_time <= execution_time, also after
\* execute has run on a task whose remaining_time was already 0.
C7_RemainingTimeInRange ==
    \A t \in TaskIds :
        remaining_time[t] >= 0 /\ remaining_time[t] <= execution_time[t]

\* execute has run on a task whose remaining_time was 0
C7_Witness ==
    \E t \in TaskIds : CompletedTwice(t) /\ remaining_time[t] = 0

\* C9: the run of Task A and Task B over the horizon 12.  A runs at 0, 4, 8
\* and B at 1, 2 and 6, 7; A's jobs complete at 1, 5, 9 with response time 1,
\* B's at 3 with response time 3 and at 8 with response time 2.
C9_ScenarioAB ==
    (tasks = <<TaskA, TaskB>> /\ simulation_time = 12 /\ pc = "done")
        => /\ schedule_log = << <<0, 1>>, <<1, 2>>, <<2, 2>>, <<4, 1>>,
                                <<6, 2>>, <<7, 2>>, <<8, 1>> >>
           /\ completed = << <<1, 1, 1>>, <<3, 2, 3>>, <<5, 1, 1>>,
                             <<8, 2, 2>>, <<9, 1, 1>> >>
           /\ wcrt = <<1, 3>>

C9_Witness ==
    /\ tasks = <<TaskA, TaskB>>
    /\ simulation_time = 12
    /\ pc = "done"
    /\ Len(schedule_log) = 7

SingleScenario == tasks = <<TaskSingle>> /\ simulation_time = 10

\* what C10 says of the end of the run: the job ran at tick 0 and completed
\* at 1, wcrt is 1 and no tick of 1..9 has a running entry
SingleScenarioResult ==
    /\ completed = << <<1, 1, 1>> >>
    /\ wcrt = <<1>>
    /\ \A i \in DOMAIN schedule_log :
           schedule_log[i][2] # Idle => schedule_log[i] = <<0, 1>>
    /\ \E i \in DOMAIN schedule_log : schedule_log[i] = <<0, 1>>

\* C10 as claimed: current_time reaches 10 by a jump from 1.
C10_JumpFromOne ==
    [][SingleScenario
         => /\ (current_time' = 10 /\ current_time # 10) => current_time = 1
            /\ pc' = "done" => SingleScenarioResult']_vars

\* C10 as amended: the only change of current_time is the jump from 0 to 10,
\* so the loop body runs for no tick of 1..9.
C10_JumpFromZero ==
    [][SingleScenario
         => /\ current_time' # current_time
                  => current_time = 0 /\ current_time' = 10
            /\ pc' = "done" => SingleScenarioResult']_vars

C10_Witness ==
    /\ SingleScenario
    /\ pc = "done"
    /\ current_time = 10
    /\ schedule_log = << <<0, 1>> >>

\* C11: a task set with bcet > wcet, a period <= 0 or two tasks of the same
\* priority is rejected before the loop: no job is released, no tick is
\* simulated and nothing is logged.  (Task ids are list positions and so
\* distinct.)
InvalidTaskSet ==
    \/ \E t \in TaskIds : tasks[t].bcet > tasks[t].wcet \/ tasks[t].period <= 0
    \/ \E t, u \in TaskIds : t # u /\ tasks[t].priority = tasks[u].priority

C11_InvalidTaskSetRejected ==
    InvalidTaskSet
        => /\ released = <<>>
           /\ schedule_log = <<>>
           /\ current_time = 0
           /\ pc = "loop"

\* C12: the loop terminates.  Every iteration raises current_time by at
\* least 1, so at most simulation_time iterations run (each logs one
\* entry); before the horizon the release step can always be taken (a
\* sample exists for every due task) and the position is always one of the
\* four, each of which has an unguarded or two complementary steps; the
\* loop is left the first time current_time >= simulation_time and not
\* before.
C12_LoopTerminates ==
    /\ [][/\ pc = "advance" => current_time' >= current_time + 1
          /\ pc # "advance" => current_time' = current_time
          /\ (pc = "loop" /\ current_time >= simulation_time) => pc' = "done"
          /\ pc' = "done" => current_time >= simulation_time]_vars
    /\ [](Len(schedule_log) <= simulation_time)
    /\ []((pc = "loop" /\ current_time < simulation_time)
              => ENABLED ReleaseStep)
    /\ [](pc \in {"loop", "dispatch", "advance", "done"})

\* the run has ended after an idle skip that went beyond the horizon
C12_Witness ==
    /\ pc = "done"
    /\ tasks # <<>>
    /\ current_time > simulation_time
    /\ Len(schedule_log) >= 2

\* the tasks in a list
Range(s) == {s[i] : i \in DOMAIN s}

\* C13: at the start of every dispatch step active_jobs holds each task at
\* most once, and every task in it has remaining_time > 0.
C13_ActiveJobsUnfinished ==
    pc = "dispatch"
        => /\ \A i, j \in DOMAIN active_jobs :
                  active_jobs[i] = active_jobs[j] => i = j
           /\ \A t \in Range(active_jobs) : remaining_time[t] > 0

\* the entries of the log that show task t running at a time in from..(to - 1)
RunEntries(log, t, from, to) ==
    {k \in DOMAIN log : log[k][2] = t /\ from <= log[k][1] /\ log[k][1] < to}

\* C14: every running entry of the log is one unit of work: the task had
\* remaining_time > 0 before the dispatch, which lowered it by exactly 1;
\* and when a job completes, the log shows it running in as many ticks
\* since its release as its execution_time.
C14_EntryIsUnitOfWork ==
    [][(pc = "dispatch" /\ active_jobs # <<>>)
         => LET t == Last(schedule_log')[2]
            IN  /\ remaining_time[t] > 0
                /\ remaining_time'[t] = remaining_time[t] - 1
                /\ Len(completed') > Len(completed)
                       => Cardinality(RunEntries(schedule_log', t, release_time[t],
                                                 current_time + 1))
                              = execution_time[t]]_vars

\* the processor has just become idle: the last job completed at a tick
\* boundary, nothing is active, and the clock has moved beyond that
\* boundary to the next release
IdleSkipped ==
    /\ tasks # <<>>
    /\ pc = "loop"
    /\ active_jobs = <<>>
    /\ completed # <<>>
    /\ current_time > Last(completed)[1]

\* the log entries of the idle period: those from the boundary on
IdlePeriodEntries ==
    {k \in DOMAIN schedule_log : schedule_log[k][1] >= Last(completed)[1]}

IdleEntries == {k \in DOMAIN schedule_log : schedule_log[k][2] = Idle}

\* C15 as claimed: when the processor becomes idle, the log has exactly one
\* entry for the idle period, an idle entry at the tick where idleness
\* began, and none for the ticks skipped.
C15_OneIdleEntry ==
    IdleSkipped
        => /\ Cardinality(IdlePeriodEntries) = 1
           /\ \A k \in IdlePeriodEntries :
                  schedule_log[k] = <<Last(completed)[1], Idle>>

\* C15 as amended: when the processor becomes idle, the log has no entry at
\* all for the idle period, neither at the tick where idleness began nor
\* at a skipped tick; the log of a non-empty task set never holds an idle
\* entry.
C15_NoIdleEntry ==
    /\ tasks # <<>> => IdleEntries = {}
    /\ IdleSkipped
           => /\ IdlePeriodEntries = {}
              /\ Last(schedule_log) =
                     <<Last(completed)[1] - 1, Last(completed)[2]>>

\* idle for at least two ticks after a completion, within the horizon
C15_Witness ==
    /\ IdleSkipped
    /\ current_time >= Last(completed)[1] + 2
    /\ current_time < simulation_time

\* the release lines of task t
ReleaseLinesOf(t) == {i \in DOMAIN released : released[i][2] = t}

\* the ticks whose release step has run
ReleaseStepsDone ==
    IF pc \in {"dispatch", "advance"} THEN 0..current_time
    ELSE 0..(current_time - 1)

\* C16: the time advance never jumps past a release.  At the start of every
\* iteration no next release time lies behind current_time, and every task
\* has been released exactly at the multiples of its period below
\* simulation_time that the loop has reached, once at each.
C16_ReleasesOnSchedule ==
    /\ pc = "loop"
           => \A t \in TaskIds : job_release_times[t] >= current_time
    /\ \A t \in TaskIds :
           /\ {released[i][1] : i \in ReleaseLinesOf(t)}
                  = {x \in ReleaseStepsDone :
                         x < simulation_time /\ x % tasks[t].period = 0}
           /\ \A i, j \in ReleaseLinesOf(t) :
                  released[i][1] = released[j][1] => i = j

\* the run has ended, with an idle skip over at least one tick in it, and
\* some task was released three times
C16_Witness ==
    /\ pc = "done"
    /\ \E t \in TaskIds : Cardinality(ReleaseLinesOf(t)) >= 3
    /\ \E i \in 1..(Len(schedule_log) - 1) :
           schedule_log[i + 1][1] > schedule_log[i][1] + 1

\* the smallest priority value in active_jobs
MinPriority == SetMin({tasks[t].priority : t \in Range(active_jobs)})

\* the entries of active_jobs that carry the smallest priority value
MinPriorityEntries ==
    {i \in DOMAIN active_jobs : tasks[active_jobs[i]].priority = MinPriority}

\* C17: among the active jobs of the smallest priority value the dispatch
\* takes the one appended earliest.  The list keeps its order among equal
\* priorities, so that is the first such entry of active_jobs; when no task
\* is in the list twice it is the task released earliest, and the one
\* defined first among those released at the same tick.  A job that ran in
\* the last logged tick and is unfinished is not displaced by another task
\* of equal priority.
C17_EarliestAmongEqualPriority ==
    [][(pc = "dispatch" /\ active_jobs # <<>>)
         => LET x == Last(schedule_log')[2]
            IN  /\ x = active_jobs[SetMin(MinPriorityEntries)]
                /\ (\A i, j \in DOMAIN active_jobs :
                        active_jobs[i] = active_jobs[j] => i = j)
                       => \A i \in MinPriorityEntries :
                              LET y == active_jobs[i]
                              IN  \/ release_time[x] < release_time[y]
                                  \/ release_time[x] = release_time[y] /\ x <= y
                /\ (/\ schedule_log # <<>>
                    /\ Last(schedule_log)[2] # Idle
                    /\ remaining_time[Last(schedule_log)[2]] > 0
                    /\ release_time[Last(schedule_log)[2]] <= Last(schedule_log)[1]
                    /\ tasks[x].priority = tasks[Last(schedule_log)[2]].priority)
                       => x = Last(schedule_log)[2]]_vars

\* the second task, unfinished, ran again although the first task, of the
\* same priority, had just been released again and was ready
C17_Witness ==
    /\ pc = "advance"
    /\ Len(tasks) = 2
    /\ tasks[1].priority = tasks[2].priority
    /\ Len(schedule_log) >= 2
    /\ Last(schedule_log) = <<current_time, 2>>
    /\ schedule_log[Len(schedule_log) - 1] = <<current_time - 1, 2>>
    /\ release_time[1] = current_time
    /\ release_time[2] < current_time
    /\ remaining_time[1] > 0
    /\ active_jobs = <<1>>

\* C18: the schedule is work-conserving.  From the release step at time 0
\* on, every task with remaining_time > 0 is in active_jobs; an idle entry
\* is logged, and current_time advanced by more than 1, only when no task
\* has remaining_time > 0.
C18_WorkConserving ==
    /\ []((pc # "loop" \/ current_time > 0)
              => \A t \in TaskIds :
                     remaining_time[t] > 0 => t \in Range(active_jobs))
    /\ [][/\ (pc = "dispatch" /\ Last(schedule_log')[2] = Idle)
                 => \A t \in TaskIds : remaining_time[t] = 0
          /\ current_time' > current_time + 1
                 => \A t \in TaskIds : remaining_time[t] = 0]_vars

\* the clock has moved one tick to a time with no release because a job is
\* unfinished
C18_Witness ==
    /\ pc = "loop"
    /\ current_time > 0
    /\ current_time < simulation_time
    /\ \A t \in TaskIds : job_release_times[t] > current_time + 1
    /\ \E t \in TaskIds : remaining_time[t] > 0 /\ t \in Range(active_jobs)

\* priorities are unique, t has the smallest and its wcet is at most its
\* period
TopTask(t) ==
    /\ \A u, v \in TaskIds : u # v => tasks[u].priority # tasks[v].priority
    /\ \A u \in TaskIds : tasks[t].priority <= tasks[u].priority
    /\ tasks[t].wcet <= tasks[t].period

\* the ticks at which the log shows t running since its last release
RunTicksOfJob(t) ==
    {schedule_log[k][1] :
        k \in {j \in DOMAIN schedule_log :
                  schedule_log[j][2] = t /\ schedule_log[j][1] >= release_time[t]}}

\* C19: every job of such a task runs in consecutive ticks from its release
\* and completes with response_time equal to its execution_time, provided
\* it ends within the horizon; every earlier job of the task has completed
\* by the next release.
C19_TopTaskRunsAtOnce ==
    \A t \in TaskIds :
        TopTask(t)
            => /\ RunTicksOfJob(t) =
                      release_time[t]..(release_time[t] + execution_time[t]
                                            - remaining_time[t] - 1)
               /\ response_time[t] # None
                      => /\ response_time[t] = execution_time[t]
                         /\ remaining_time[t] = 0
               /\ (remaining_time[t] = 0 /\ released # <<>>)
                      => /\ response_time[t] = execution_time[t]
                         /\ Cardinality(LinesOf(t)) = Cardinality(ReleaseLinesOf(t))
               /\ (remaining_time[t] > 0 /\ released # <<>>)
                      => Cardinality(LinesOf(t)) = Cardinality(ReleaseLinesOf(t)) - 1
               /\ (/\ pc = "done"
                   /\ release_time[t] + execution_time[t] <= simulation_time)
                      => response_time[t] = execution_time[t]

\* the top task is second in the list; a later job of it, two ticks long,
\* has completed while the first task was waiting
C19_Witness ==
    /\ Len(tasks) = 2
    /\ TopTask(2)
    /\ release_time[2] > 0
    /\ execution_time[2] = 2
    /\ response_time[2] = 2
    /\ remaining_time[1] > 0
    /\ release_time[1] < completion_time[2]

====
